---- MODULE Spec2Model ----
(***************************************************************************)
(* Model of the Terraform state analysis scripts:                          *)
(*   terraform_resource_extractor.py  (main, extract_resources,            *)
(*                                      compare_with_jq, group_resources)  *)
(*   temporary_intended_resources.py  (keyword script, extract_resources)  *)
(*   extract_resource_type_stats.py   (extract_resource_instances)         *)
(*                                                                         *)
(* Python strings on which the code does string work (startswith, lower,   *)
(* substring test) are sequences of one-character strings.  A dictionary   *)
(* key that may be missing is an option: <<>> when the key is absent and   *)
(* <<v>> when it is bound to v.                                            *)
(***************************************************************************)
EXTENDS Integers, Sequences, FiniteSets, TLC

VARIABLES prog, state_data, args, pc, bash_count, resource_df, hashi_instances,
          aggregate_out, grouped_df, final_df, csv_file, stdout, raised,
          exit_status, returned

vars == <<prog, state_data, args, pc, bash_count, resource_df, hashi_instances,
          aggregate_out, grouped_df, final_df, csv_file, stdout, raised,
          exit_status, returned>>

\* ------------------------------------------------------------------ bounds
\* Longest resources list of a document.
MaxResources == 2
\* Longest instances list of a resource of an extractor document.
MaxInstances == 2

\* ------------------------------------------------------------------ values
None == <<>>
Some(v) == <<v>>
Has(opt) == opt # <<>>
\* dict.get(key, default)
Get(opt, default) == IF opt = <<>> THEN default ELSE opt[1]

aws_instance == <<"a","w","s","_","i","n","s","t","a","n","c","e">>
tfe_workspace == <<"t","f","e","_","w","o","r","k","s","p","a","c","e">>
vault_mount == <<"v","a","u","l","t","_","m","o","u","n","t">>
null_resource == <<"n","u","l","l","_","r","e","s","o","u","r","c","e">>
terraform_data == <<"t","e","r","r","a","f","o","r","m","_","d","a","t","a">>
tfe_ == <<"t","f","e","_">>
vault_ == <<"v","a","u","l","t","_">>
Unknown == <<"U","n","k","n","o","w","n">>
Test_VM == <<"T","e","s","t","-","V","M">>
prod == <<"p","r","o","d">>
dot_csv == <<".","c","s","v">>
output_csv == <<"o","u","t",".","c","s","v">>
output_bare == <<"o","u","t">>

\* str.startswith
StartsWith(s, p) == Len(s) >= Len(p) /\ SubSeq(s, 1, Len(p)) = p

\* keyword in name
Contains(s, k) ==
    \E i \in 1..(Len(s) - Len(k) + 1) : SubSeq(s, i, i + Len(k) - 1) = k

UpperCase == <<"A","B","C","D","E","F","G","H","I","J","K","L","M",
               "N","O","P","Q","R","S","T","U","V","W","X","Y","Z">>
LowerCase == <<"a","b","c","d","e","f","g","h","i","j","k","l","m",
               "n","o","p","q","r","s","t","u","v","w","x","y","z">>
LowerChar(c) ==
    IF \E i \in 1..Len(UpperCase) : UpperCase[i] = c
    THEN LowerCase[CHOOSE i \in 1..Len(UpperCase) : UpperCase[i] = c]
    ELSE c
\* str.lower
Lower(s) == [i \in 1..Len(s) |-> LowerChar(s[i])]

\* ------------------------------------------------------------------ documents
\* The value bound to a document's "resources" key.  kind "list" is a JSON
\* array of resource objects; the other kinds are the JSON values that are
\* not arrays.
\* length is what iterating the value yields: the entries of a list, the keys
\* of a mapping, the characters of a string.
ListValue(items) == [kind |-> "list", items |-> items, length |-> Len(items)]
NullValue == [kind |-> "null", items |-> <<>>, length |-> 0]
NumberValue == [kind |-> "number", items |-> <<>>, length |-> 0]
MappingValue == [kind |-> "mapping", items |-> <<>>, length |-> 1]
EmptyMappingValue == [kind |-> "mapping", items |-> <<>>, length |-> 0]
StringValue == [kind |-> "string", items |-> <<>>, length |-> 1]

Instance(attributes) == [attributes |-> attributes]
\* n instances whose attributes the extractor never reads
BareInstances(n) == [i \in 1..n |-> Instance(None)]

Resource(mode, type, name, module, provider, instances) ==
    [mode |-> mode, type |-> type, name |-> name, module |-> module,
     provider |-> provider, instances |-> instances]

\* Resource entries of extractor documents: the type and name cases of a
\* managed entry, data entries, and an entry inside a module.
ExtractorShapes ==
    { Resource(Some("managed"), t, Some("web"), None, None, None) :
        t \in {Some(aws_instance), Some(tfe_workspace), Some(vault_mount),
               Some(null_resource), None} }
    \cup { Resource(Some("managed"), t, None, None, None, None) :
             t \in {Some(aws_instance), Some(tfe_workspace)} }
    \cup { Resource(Some("data"), t, Some("web"), None, None, None) :
             t \in {Some(tfe_workspace), None} }
    \cup { Resource(Some("managed"), Some(aws_instance), Some("web"),
                    Some("module.net"), Some("aws"), None) }

\* Each entry with 0 to MaxInstances instances, and one without the key.
ExtractorResources ==
    { [s EXCEPT !.instances = Some(BareInstances(n))] :
        s \in ExtractorShapes, n \in 0..MaxInstances }
    \cup { Resource(Some("managed"), Some(aws_instance), Some("web"), None, None, None) }

SeqsUpTo(S, n) == UNION { [1..k -> S] : k \in 0..n }

ExtractorDocs ==
    { [resources |-> r] :
        r \in {None, Some(NullValue), Some(NumberValue), Some(MappingValue),
               Some(EmptyMappingValue), Some(StringValue)}
              \cup { Some(ListValue(l)) : l \in SeqsUpTo(ExtractorResources, MaxResources) } }

\* ------------------------------------------------------------------ extractor
\* IsManaged with the comparison to "managed" left out
IsManaged_AnyMode(resource) == Has(resource.mode)

\* resource.get("mode") == "managed"
IsManaged(resource) == Has(resource.mode) /\ resource.mode[1] = "managed"

\* IsHousekeeping with null_resource missing from the exclusion list
IsHousekeeping_TerraformDataOnly(resource) ==
    Has(resource.type) /\ resource.type[1] \in {terraform_data}

\* resource.get("type") in ["terraform_data", "null_resource"]
IsHousekeeping(resource) ==
    Has(resource.type) /\ resource.type[1] \in {terraform_data, null_resource}

\* IsHashi with the vault_ prefix forgotten
IsHashi_TfeOnly(type) == StartsWith(type, tfe_)

\* resource["type"].startswith("tfe_") or resource["type"].startswith("vault_")
IsHashi(type) == StartsWith(type, tfe_) \/ StartsWith(type, vault_)

\* the dictionary appended for one instance
Row(resource) ==
    [Module |-> Get(resource.module, "root"),
     Resource_Type |-> resource.type[1],
     Resource_Name |-> resource.name[1],
     Provider |-> Get(resource.provider, "unknown"),
     Instance_Count |-> 1]

Raise(acc, exc) == [acc EXCEPT !.raised = exc]

\* ExtractBody with the two flag tests chained by elif, so that the only-hashi
\* test is not made once the exclude-hashi flag is set
ExtractBody_ExcludeWins(acc, resource, exclude_tfe_vault, only_tfe_vault) ==
    IF ~(IsManaged(resource) /\ ~IsHousekeeping(resource)) THEN acc
    ELSE IF ~Has(resource.type) THEN Raise(acc, "KeyError")
    ELSE LET is_hashi_resource == IsHashi(resource.type[1])
             instances == Get(resource.instances, <<>>)
         IN  IF exclude_tfe_vault /\ is_hashi_resource THEN acc
             ELSE IF ~exclude_tfe_vault /\ only_tfe_vault /\ ~is_hashi_resource THEN acc
             ELSE IF Len(instances) > 0 /\ ~Has(resource.name)
                  THEN Raise(acc, "KeyError")
             ELSE [acc EXCEPT
                     !.hashi_instances =
                         IF is_hashi_resource THEN @ + Len(instances) ELSE @,
                     !.rows = @ \o [i \in 1..Len(instances) |-> Row(resource)]]

\* ExtractBody reading type and name with get and a default, as the keyword
\* script reads the type
ExtractBody_Defaulting(acc, resource, exclude_tfe_vault, only_tfe_vault) ==
    IF ~(IsManaged(resource) /\ ~IsHousekeeping(resource)) THEN acc
    ELSE LET type == Get(resource.type, Unknown)
             is_hashi_resource == IsHashi(type)
             instances == Get(resource.instances, <<>>)
         IN  IF exclude_tfe_vault /\ is_hashi_resource THEN acc
             ELSE IF only_tfe_vault /\ ~is_hashi_resource THEN acc
             ELSE [acc EXCEPT
                     !.hashi_instances =
                         IF is_hashi_resource THEN @ + Len(instances) ELSE @,
                     !.rows = @ \o [i \in 1..Len(instances) |->
                                [Module |-> Get(resource.module, "root"),
                                 Resource_Type |-> type,
                                 Resource_Name |-> Get(resource.name, "Unknown"),
                                 Provider |-> Get(resource.provider, "unknown"),
                                 Instance_Count |-> 1]]]

\* One pass of the loop body of extract_resources over a resource object.
ExtractBody(acc, resource, exclude_tfe_vault, only_tfe_vault) ==
    IF ~(IsManaged(resource) /\ ~IsHousekeeping(resource)) THEN acc
    ELSE IF ~Has(resource.type) THEN Raise(acc, "KeyError")
    ELSE LET is_hashi_resource == IsHashi(resource.type[1])
             instances == Get(resource.instances, <<>>)
         IN  IF exclude_tfe_vault /\ is_hashi_resource THEN acc
             ELSE IF only_tfe_vault /\ ~is_hashi_resource THEN acc
             ELSE IF Len(instances) > 0 /\ ~Has(resource.name)
                  THEN Raise(acc, "KeyError")
             ELSE [acc EXCEPT
                     !.hashi_instances =
                         IF is_hashi_resource THEN @ + Len(instances) ELSE @,
                     !.rows = @ \o [i \in 1..Len(instances) |-> Row(resource)]]

\* The loop body on whatever the iteration yields: a key of a mapping or a
\* character of a string has no get method.
ExtractItem(acc, value, i, exclude_tfe_vault, only_tfe_vault) ==
    IF value.kind # "list" THEN Raise(acc, "AttributeError")
    ELSE ExtractBody(acc, value.items[i], exclude_tfe_vault, only_tfe_vault)

RECURSIVE ExtractLoop(_, _, _, _, _)
ExtractLoop(acc, value, i, exclude_tfe_vault, only_tfe_vault) ==
    IF i > value.length \/ acc.raised # "" THEN acc
    ELSE ExtractLoop(
            ExtractItem(acc, value, i, exclude_tfe_vault, only_tfe_vault),
            value, i + 1, exclude_tfe_vault, only_tfe_vault)

\* extract_resources: the rows and the hashi counter, or the exception that
\* leaves the function (and with it no return value).
ExtractResources(doc, exclude_tfe_vault, only_tfe_vault) ==
    LET value == Get(doc.resources, ListValue(<<>>))
        start == [raised |-> "", rows |-> <<>>, hashi_instances |-> 0]
    IN  IF value.kind \in {"null", "number"} THEN Raise(start, "TypeError")
        ELSE LET end == ExtractLoop(start, value, 1, exclude_tfe_vault, only_tfe_vault)
             IN  IF end.raised # "" THEN Raise(start, end.raised) ELSE end

RECURSIVE SumSeq(_)
SumSeq(s) == IF s = <<>> THEN 0 ELSE s[1] + SumSeq(Tail(s))

\* compare_with_jq: the generator expression summed by line 134
CompareWithJq(doc) ==
    LET value == Get(doc.resources, ListValue(<<>>))
    IN  IF value.kind \in {"null", "number"}
        THEN [raised |-> "TypeError", bash_count |-> 0]
        ELSE IF value.kind # "list" /\ value.length > 0
        THEN [raised |-> "AttributeError", bash_count |-> 0]
        ELSE [raised |-> "",
              bash_count |->
                SumSeq([i \in 1..Len(value.items) |->
                    IF IsManaged(value.items[i]) /\ ~IsHousekeeping(value.items[i])
                    THEN Len(Get(value.items[i].instances, <<>>))
                    ELSE 0])]


\* ------------------------------------------------------------------ grouping
KeyOf(row) == <<row.Module, row.Resource_Type, row.Resource_Name, row.Provider>>

\* GroupBySum with the first value of each group taken instead of the sum
GroupBySum_First(rows) ==
    { [Module |-> k[1], Resource_Type |-> k[2], Resource_Name |-> k[3],
       Provider |-> k[4],
       Instance_Count |->
            LET part == SelectSeq(rows, LAMBDA r : KeyOf(r) = k)
            IN  part[1].Instance_Count] :
        k \in { KeyOf(rows[i]) : i \in 1..Len(rows) } }

\* resource_df.groupby([Module, Resource Type, Resource Name, Provider]).sum():
\* one summary per distinct key, the remaining column summed over its rows.
GroupBySum(rows) ==
    { [Module |-> k[1], Resource_Type |-> k[2], Resource_Name |-> k[3],
       Provider |-> k[4],
       Instance_Count |->
            LET part == SelectSeq(rows, LAMBDA r : KeyOf(r) = k)
            IN  SumSeq([i \in 1..Len(part) |-> part[i].Instance_Count])] :
        k \in { KeyOf(rows[i]) : i \in 1..Len(rows) } }

\* group_resources: prints the grouped frame; the function has no return
\* statement, so the caller receives None.
GroupResources(rows) == [printed |-> GroupBySum(rows), ret |-> None]

\* ------------------------------------------------------------------ scripts
Keywords == { <<"d","e","m","o">>, <<"t","e","s","t">>, <<"t","e","m","p">>,
              <<"t","m","p">>, <<"e","x","a","m","p","l","e">> }

\* any(keyword in name.lower() for keyword in keywords)
MatchesKeyword(name) == \E k \in Keywords : Contains(Lower(name), k)

Attributes(name, id) == [name |-> name, id |-> id]
EmptyAttributes == Attributes(None, None)

\* the compared part of a row
Project(row, subset) == [c \in subset |-> row[c]]

\* DataFrame.drop_duplicates(subset, keep="first")
RECURSIVE DropDuplicates(_, _, _)
DropDuplicates(rows, subset, seen) ==
    IF rows = <<>> THEN <<>>
    ELSE IF Project(rows[1], subset) \in seen
         THEN DropDuplicates(Tail(rows), subset, seen)
         ELSE <<rows[1]>> \o
              DropDuplicates(Tail(rows), subset, seen \cup {Project(rows[1], subset)})

\* drop_duplicates called without subset: every column is compared
TypeAndName_AllColumns == {"Resource_Type", "Resource_Name", "Attributes"}

\* subset=["Resource Type", "Resource Name"] of the keyword script
TypeAndName == {"Resource_Type", "Resource_Name"}

\* the columns of pd.DataFrame(filtered_resources)
KeywordColumns(display_attributes) ==
    {"Resource_Type", "Resource_Name"}
        \cup (IF display_attributes THEN {"Attributes"} ELSE {})

\* the instances of a document in iteration order, each with its resource
RECURSIVE Flatten(_)
Flatten(resources) ==
    IF resources = <<>> THEN <<>>
    ELSE LET instances == Get(resources[1].instances, <<>>)
         IN  [i \in 1..Len(instances) |->
                [resource |-> resources[1], instance |-> instances[i]]]
             \o Flatten(Tail(resources))

\* the dictionary the keyword script appends for a matching instance
KeywordRow(pair, display_attributes) ==
    LET attributes == Get(pair.instance.attributes, EmptyAttributes)
    IN  [Resource_Type |-> Get(pair.resource.type, Unknown),
         Resource_Name |-> Get(attributes.name, Unknown),
         Attributes |-> IF display_attributes THEN Some(attributes) ELSE None]

\* filtered_resources of the keyword script
KeywordRows(doc, display_attributes) ==
    LET pairs == Flatten(Get(doc.resources, ListValue(<<>>)).items)
        hits == SelectSeq(pairs, LAMBDA p :
                    MatchesKeyword(Get(Get(p.instance.attributes, EmptyAttributes).name,
                                       Unknown)))
    IN  [i \in 1..Len(hits) |-> KeywordRow(hits[i], display_attributes)]

\* resource_instances of extract_resource_instances
TypeRows(doc, resource_type) ==
    LET pairs == Flatten(Get(doc.resources, ListValue(<<>>)).items)
        hits == SelectSeq(pairs, LAMBDA p :
                    Has(p.resource.type) /\ p.resource.type[1] = resource_type)
    IN  [i \in 1..Len(hits) |-> Get(hits[i].instance.attributes, EmptyAttributes)]

\* the columns of pd.DataFrame(list of attribute dictionaries)
AttributeColumns(rows) ==
    { c \in {"name", "id"} : \E i \in 1..Len(rows) : Has(rows[i][c]) }

\* DataFrame.empty: no rows or no columns
EmptyFrame(rows, columns) == Len(rows) = 0 \/ columns = {}


\* ------------------------------------------------------------------ aggregate
\* Series.nunique
NUnique(rows, column) == Cardinality({ rows[i][column] : i \in 1..Len(rows) })

\* aggregate_resources: the figures it prints
AggregateResources(rows, hashi, is_hashi_only, is_excluding_hashi) ==
    [total_instances |-> IF is_hashi_only THEN None ELSE Some(Len(rows)),
     hashi_instances |->
        IF is_hashi_only \/ ~is_excluding_hashi THEN Some(hashi) ELSE None,
     total_resources |-> NUnique(rows, "Resource_Name"),
     unique_types |-> NUnique(rows, "Resource_Type")]

\* str.endswith
EndsWith(s, p) ==
    Len(s) >= Len(p) /\ SubSeq(s, Len(s) - Len(p) + 1, Len(s)) = p

\* save_to_csv: the file written, ".csv" appended to a name that lacks it
SaveToCsv(table, output_file) ==
    [file |-> IF EndsWith(output_file, dot_csv) THEN output_file
              ELSE output_file \o dot_csv,
     table |-> table]

\* ------------------------------------------------------------------ inputs
Args(hide, only, number, aggregate, group, output, detailed, resource_type) ==
    [hide_tfe_vault |-> hide, only_tfe_vault |-> only, number |-> number,
     aggregate |-> aggregate, group |-> group, output |-> output,
     detailed |-> detailed, resource_type |-> resource_type]

\* Documents of the runs of main: entries that yield rows, entries the hashi
\* flags drop, entries that are not managed; empty and full instance lists.
MainShapes ==
    { Resource(Some("managed"), Some(aws_instance), Some("web"), None, None, None),
      Resource(Some("managed"), Some(tfe_workspace), Some("web"), None, None, None),
      Resource(Some("data"), Some(tfe_workspace), Some("web"), None, None, None) }

MainResources ==
    { [s EXCEPT !.instances = Some(BareInstances(n))] :
        s \in MainShapes, n \in {0, MaxInstances} }

MainDocs ==
    { [resources |-> r] :
        r \in {None, Some(NullValue)} \cup
              { Some(ListValue(l)) : l \in SeqsUpTo(MainResources, MaxResources) } }

\* Instance lists of the documents of the two scripts: repeated and distinct
\* attribute sets, names that match no keyword, missing names and attributes.
ScriptInstanceLists ==
    LET a1 == Instance(Some(Attributes(Some(Test_VM), Some(1))))
        a2 == Instance(Some(Attributes(Some(Test_VM), Some(2))))
        a3 == Instance(Some(Attributes(Some(prod), Some(1))))
        a4 == Instance(Some(Attributes(None, Some(1))))
        e  == Instance(None)
    IN  { None, Some(<<>>), Some(<<a1>>), Some(<<a1, a2, a1>>), Some(<<a3>>),
          Some(<<a4, a1>>), Some(<<e>>) }

ScriptResources ==
    { Resource(Some("managed"), t, Some("web"), None, None, i) :
        t \in {Some(aws_instance), None}, i \in ScriptInstanceLists }
    \cup { Resource(Some("data"), Some(aws_instance), Some("web"), None, None, i) :
             i \in ScriptInstanceLists }

ScriptDocs ==
    { [resources |-> r] :
        r \in {None, Some(NullValue)} \cup
              { Some(ListValue(l)) : l \in SeqsUpTo(ScriptResources, MaxResources) } }

InitRun(p, doc, a, start) ==
    /\ prog = p
    /\ state_data = doc
    /\ args = a
    /\ pc = start
    /\ bash_count = 0
    /\ resource_df = <<>>
    /\ hashi_instances = 0
    /\ aggregate_out = None
    /\ grouped_df = None
    /\ final_df = None
    /\ csv_file = None
    /\ stdout = <<>>
    /\ raised = ""
    /\ exit_status = 0
    /\ returned = None

InitScripts ==
    \/ \E doc \in ScriptDocs, d \in BOOLEAN :
          InitRun("keyword", doc,
                  Args(FALSE, FALSE, FALSE, FALSE, FALSE, None, d, None), "start")
    \/ \E doc \in ScriptDocs, d \in BOOLEAN :
          InitRun("types", doc,
                  Args(FALSE, FALSE, FALSE, FALSE, FALSE, None, d, Some(aws_instance)),
                  "start")

\* The functions of the extractor called on a document, and the two scripts.
Init ==
    \/ \E doc \in ExtractorDocs, h \in BOOLEAN, o \in BOOLEAN :
          InitRun("extractor", doc,
                  Args(h, o, FALSE, FALSE, FALSE, None, FALSE, None),
                  "extract_resources")
    \/ InitScripts

\* Runs of main under every combination of its flags, and the two scripts.
InitMain ==
    \/ \E doc \in MainDocs, h \in BOOLEAN, o \in BOOLEAN, n \in BOOLEAN,
          a \in BOOLEAN, g \in BOOLEAN, out \in {None, Some(output_bare), Some(output_csv)} :
          InitRun("main", doc, Args(h, o, n, a, g, out, FALSE, None),
                  "compare_with_jq")
    \/ InitScripts

\* ------------------------------------------------------------------ actions
\* An exception nobody catches: traceback, exit status 1.
Uncaught(exc) ==
    /\ raised' = exc
    /\ exit_status' = 1
    /\ pc' = "done"

\* exit(0)
ExitZero ==
    /\ exit_status' = 0
    /\ pc' = "done"
    /\ UNCHANGED raised

\* main, line 157
CompareWithJqCall ==
    /\ prog = "main"
    /\ pc = "compare_with_jq"
    /\ LET r == CompareWithJq(state_data)
       IN  IF r.raised # ""
           THEN Uncaught(r.raised) /\ UNCHANGED bash_count
           ELSE /\ bash_count' = r.bash_count
                /\ pc' = "extract_resources"
                /\ UNCHANGED <<raised, exit_status>>
    /\ UNCHANGED <<prog, state_data, args, resource_df, hashi_instances,
                   aggregate_out, grouped_df, final_df, csv_file, stdout, returned>>

\* extract_resources called on a document; in main, line 158
ExtractResourcesCall ==
    /\ prog \in {"main", "extractor"}
    /\ pc = "extract_resources"
    /\ LET r == ExtractResources(state_data, args.hide_tfe_vault, args.only_tfe_vault)
       IN  IF r.raised # ""
           THEN Uncaught(r.raised) /\ UNCHANGED <<resource_df, hashi_instances>>
           ELSE /\ resource_df' = r.rows
                /\ hashi_instances' = r.hashi_instances
                /\ pc' = "extracted"
                /\ UNCHANGED <<raised, exit_status>>
    /\ UNCHANGED <<prog, state_data, args, bash_count, aggregate_out, grouped_df,
                   final_df, csv_file, stdout, returned>>

\* group_resources called on the rows extract_resources returned
GroupResourcesCall ==
    /\ prog = "extractor"
    /\ pc = "extracted"
    /\ resource_df # <<>>
    /\ LET g == GroupResources(resource_df)
       IN  /\ grouped_df' = Some(g.printed)
           /\ returned' = g.ret
           /\ stdout' = Append(stdout, "grouped")
    /\ pc' = "done"
    /\ UNCHANGED <<prog, state_data, args, bash_count, resource_df, hashi_instances,
                   aggregate_out, final_df, csv_file, raised, exit_status>>

\* MainIfEmpty with the exit(0) after the message forgotten
MainIfEmpty_NoExit ==
    /\ prog = "main"
    /\ pc = "extracted"
    /\ stdout' = IF resource_df = <<>>
                 THEN Append(stdout, "no_managed_resources") ELSE stdout
    /\ final_df' = Some(resource_df)
    /\ pc' = "if_number"
    /\ UNCHANGED <<prog, state_data, args, bash_count, resource_df, hashi_instances,
                   aggregate_out, grouped_df, csv_file, raised, exit_status, returned>>

\* main, lines 160-165
MainIfEmpty ==
    /\ prog = "main"
    /\ pc = "extracted"
    /\ IF resource_df = <<>>
       THEN /\ stdout' = Append(stdout, "no_managed_resources")
            /\ ExitZero
            /\ UNCHANGED final_df
       ELSE /\ final_df' = Some(resource_df)
            /\ pc' = "if_number"
            /\ UNCHANGED <<stdout, raised, exit_status>>
    /\ UNCHANGED <<prog, state_data, args, bash_count, resource_df, hashi_instances,
                   aggregate_out, grouped_df, csv_file, returned>>

\* main, lines 167-169
MainIfNumber ==
    /\ prog = "main"
    /\ pc = "if_number"
    /\ IF args.number
       THEN /\ stdout' = Append(stdout, "total_instances")
            /\ ExitZero
       ELSE /\ pc' = "if_aggregate"
            /\ UNCHANGED <<stdout, raised, exit_status>>
    /\ UNCHANGED <<prog, state_data, args, bash_count, resource_df, hashi_instances,
                   aggregate_out, grouped_df, final_df, csv_file, returned>>

\* main, lines 171-173
MainIfAggregate ==
    /\ prog = "main"
    /\ pc = "if_aggregate"
    /\ IF args.aggregate
       THEN /\ aggregate_out' =
                    Some(AggregateResources(resource_df, hashi_instances,
                                            args.only_tfe_vault, args.hide_tfe_vault))
            /\ stdout' = Append(stdout, "aggregate")
            /\ ExitZero
       ELSE /\ pc' = "if_group"
            /\ UNCHANGED <<aggregate_out, stdout, raised, exit_status>>
    /\ UNCHANGED <<prog, state_data, args, bash_count, resource_df, hashi_instances,
                   grouped_df, final_df, csv_file, returned>>

\* main, lines 175-177: reset_index is called on what group_resources returned
MainIfGroup ==
    /\ prog = "main"
    /\ pc = "if_group"
    /\ IF args.group
       THEN LET g == GroupResources(resource_df)
            IN  /\ grouped_df' = Some(g.printed)
                /\ stdout' = Append(stdout, "grouped")
                /\ IF g.ret = None
                   THEN Uncaught("AttributeError") /\ UNCHANGED final_df
                   ELSE /\ final_df' = g.ret
                        /\ pc' = "if_output"
                        /\ UNCHANGED <<raised, exit_status>>
       ELSE /\ pc' = "if_output"
            /\ UNCHANGED <<grouped_df, final_df, stdout, raised, exit_status>>
    /\ UNCHANGED <<prog, state_data, args, bash_count, resource_df, hashi_instances,
                   aggregate_out, csv_file, returned>>

\* main, lines 179-180
MainIfOutput ==
    /\ prog = "main"
    /\ pc = "if_output"
    /\ IF Has(args.output)
       THEN /\ csv_file' = Some(SaveToCsv(final_df[1], args.output[1]))
            /\ stdout' = Append(stdout, "saved")
       ELSE UNCHANGED <<csv_file, stdout>>
    /\ pc' = "print"
    /\ UNCHANGED <<prog, state_data, args, bash_count, resource_df, hashi_instances,
                   aggregate_out, grouped_df, final_df, raised, exit_status, returned>>

\* main, lines 182-183, and the normal end of the process
MainPrint ==
    /\ prog = "main"
    /\ pc = "print"
    /\ stdout' = Append(stdout, "listing")
    /\ ExitZero
    /\ UNCHANGED <<prog, state_data, args, bash_count, resource_df, hashi_instances,
                   aggregate_out, grouped_df, final_df, csv_file, returned>>

\* What iterating the document's resources does in a script: TypeError on
\* null or a number, AttributeError on the first key or character.
ScriptIterationError(doc) ==
    LET value == Get(doc.resources, ListValue(<<>>))
    IN  IF value.kind \in {"null", "number"} THEN "TypeError"
        ELSE IF value.kind # "list" /\ value.length > 0 THEN "AttributeError"
        ELSE ""

\* the except Exception clause of both scripts: report, fall off the end
ScriptCaught(exc) ==
    /\ raised' = exc
    /\ stdout' = Append(stdout, "unexpected_error")
    /\ UNCHANGED <<resource_df, returned>>

\* temporary_intended_resources.py, extract_resources
KeywordScript ==
    /\ prog = "keyword"
    /\ pc = "start"
    /\ IF ScriptIterationError(state_data) # ""
       THEN ScriptCaught(ScriptIterationError(state_data))
       ELSE LET rows == KeywordRows(state_data, args.detailed)
            IN  /\ resource_df' = rows
                /\ UNCHANGED raised
                /\ IF EmptyFrame(rows, KeywordColumns(args.detailed))
                   THEN /\ stdout' = Append(stdout, "no_matching_resources")
                        /\ returned' = None
                   ELSE /\ stdout' = stdout \o <<"summary", "unique_listing">>
                        /\ returned' = Some(DropDuplicates(rows, TypeAndName, {}))
    /\ pc' = "done"
    /\ UNCHANGED <<prog, state_data, args, bash_count, hashi_instances, aggregate_out,
                   grouped_df, final_df, csv_file, exit_status>>

\* extract_resource_type_stats.py, extract_resource_instances
TypeScript ==
    /\ prog = "types"
    /\ pc = "start"
    /\ IF ScriptIterationError(state_data) # ""
       THEN ScriptCaught(ScriptIterationError(state_data))
       ELSE LET rows == TypeRows(state_data, args.resource_type[1])
            IN  /\ resource_df' = rows
                /\ UNCHANGED raised
                /\ IF EmptyFrame(rows, AttributeColumns(rows))
                   THEN /\ stdout' = Append(stdout, "no_instances")
                        /\ returned' = None
                   ELSE /\ stdout' =
                            stdout \o (IF args.detailed THEN <<"summary", "detailed">>
                                       ELSE <<"summary">>)
                        /\ returned' = Some(DropDuplicates(rows, AttributeColumns(rows), {}))
    /\ pc' = "done"
    /\ UNCHANGED <<prog, state_data, args, bash_count, hashi_instances, aggregate_out,
                   grouped_df, final_df, csv_file, exit_status>>

Next ==
    \/ ExtractResourcesCall
    \/ GroupResourcesCall
    \/ KeywordScript
    \/ TypeScript

Spec == Init /\ [][Next]_vars

NextMain ==
    \/ CompareWithJqCall
    \/ ExtractResourcesCall
    \/ MainIfEmpty
    \/ MainIfNumber
    \/ MainIfAggregate
    \/ MainIfGroup
    \/ MainIfOutput
    \/ MainPrint
    \/ KeywordScript
    \/ TypeScript

SpecMain == InitMain /\ [][NextMain]_vars


\* ------------------------------------------------------------------ properties
\* The resource entries of a document whose resources value is a list.
Entries(doc) ==
    IF Has(doc.resources) /\ doc.resources[1].kind = "list"
    THEN doc.resources[1].items ELSE <<>>

InstanceCount(resource) ==
    IF resource.instances = None THEN 0 ELSE Len(resource.instances[1])

\* <<i, j>>: instance j of entry i
InstancePairs(doc) ==
    UNION { { <<i, j>> : j \in 1..InstanceCount(Entries(doc)[i]) } :
            i \in 1..Len(Entries(doc)) }

\* managed and not of type terraform_data / null_resource
Eligible(resource) ==
    /\ resource.mode = Some("managed")
    /\ resource.type \notin {Some(terraform_data), Some(null_resource)}

HasPrefix(s, p) == \A i \in 1..Len(p) : i <= Len(s) /\ s[i] = p[i]

HashiType(type) == HasPrefix(type, tfe_) \/ HasPrefix(type, vault_)

EligiblePairs(doc) == { p \in InstancePairs(doc) : Eligible(Entries(doc)[p[1]]) }

HashiPairs(doc) ==
    { p \in EligiblePairs(doc) :
        /\ Entries(doc)[p[1]].type # None
        /\ HashiType(Entries(doc)[p[1]].type[1]) }

\* extract_resources has returned its rows and counter
Extracted == prog = "extractor" /\ pc # "extract_resources" /\ raised = ""

HashiRows(rows) == { k \in 1..Len(rows) : HashiType(rows[k].Resource_Type) }

\* C1 as stated: the returned hashi_count is the number of instances of
\* managed, non-housekeeping tfe_/vault_ resources under every combination of
\* the exclude-hashi and only-hashi flags.
C1_HashiCountIndependentOfFlags ==
    Extracted => hashi_instances = Cardinality(HashiPairs(state_data))

\* C1 amended: the returned hashi_count is the number of returned rows of a
\* tfe_/vault_ type: the number of instances of managed, non-housekeeping
\* tfe_/vault_ resources when the exclude-hashi flag is unset, and 0 when it
\* is set.
C1_HashiCountOfReturnedRows ==
    Extracted =>
        /\ hashi_instances = Cardinality(HashiRows(resource_df))
        /\ hashi_instances =
              IF args.hide_tfe_vault THEN 0
              ELSE Cardinality(HashiPairs(state_data))

C1_Witness ==
    /\ Extracted
    /\ args.hide_tfe_vault
    /\ Cardinality(HashiPairs(state_data)) >= 2
    /\ resource_df # <<>>
    /\ hashi_instances = 0

\* the entry the k-th row of an unfiltered extraction comes from
OriginOf(doc, k) ==
    CHOOSE i \in 1..Len(Entries(doc)) :
        /\ Cardinality({ p \in EligiblePairs(doc) : p[1] < i }) < k
        /\ k <= Cardinality({ p \in EligiblePairs(doc) : p[1] <= i })

\* C2: with both hashi flags unset the returned rows are one per instance of
\* each managed, non-housekeeping resource, in document order: as many rows
\* as compare_with_jq counts instances, each with Instance Count 1 and the
\* identity of its resource; a resource without instances gives no row.
C2_OneRowPerEligibleInstance ==
    (Extracted /\ ~args.hide_tfe_vault /\ ~args.only_tfe_vault) =>
        /\ Len(resource_df) = Cardinality(EligiblePairs(state_data))
        /\ Len(resource_df) = CompareWithJq(state_data).bash_count
        /\ \A k \in 1..Len(resource_df) :
              LET origin == Entries(state_data)[OriginOf(state_data, k)]
              IN  /\ resource_df[k].Instance_Count = 1
                  /\ resource_df[k].Resource_Type = origin.type[1]
                  /\ resource_df[k].Resource_Name = origin.name[1]
                  /\ resource_df[k].Module =
                        (IF origin.module = None THEN "root" ELSE origin.module[1])
                  /\ resource_df[k].Provider =
                        (IF origin.provider = None THEN "unknown" ELSE origin.provider[1])
                  /\ InstanceCount(origin) > 0

C2_Witness ==
    /\ Extracted
    /\ ~args.hide_tfe_vault /\ ~args.only_tfe_vault
    /\ Len(resource_df) = 3
    /\ Len(Entries(state_data)) = MaxResources
    /\ resource_df[1].Resource_Type # resource_df[3].Resource_Type

\* an eligible resource without instances, next to one that has rows
C2_WitnessNoInstances ==
    /\ Extracted
    /\ ~args.hide_tfe_vault /\ ~args.only_tfe_vault
    /\ resource_df # <<>>
    /\ \E i \in 1..Len(Entries(state_data)) :
          Eligible(Entries(state_data)[i]) /\ InstanceCount(Entries(state_data)[i]) = 0


\* group_resources has printed the grouped frame of the extracted rows
Grouped == prog = "extractor" /\ pc = "done" /\ grouped_df # None

RowKey(row) == [Module |-> row.Module, Resource_Type |-> row.Resource_Type,
                Resource_Name |-> row.Resource_Name, Provider |-> row.Provider]

RECURSIVE TotalCount(_)
TotalCount(summaries) ==
    IF summaries = {} THEN 0
    ELSE LET g == CHOOSE x \in summaries : TRUE
         IN  g.Instance_Count + TotalCount(summaries \ {g})

\* C3: group_resources partitions the extracted rows by (Module, Resource
\* Type, Resource Name, Provider): one summary per distinct key, whose
\* Instance Count is the number of rows with that key, and the counts of all
\* summaries add up to the number of rows.
C3_GroupingConservesRows ==
    Grouped =>
        LET summaries == grouped_df[1]
            keys == { RowKey(resource_df[k]) : k \in 1..Len(resource_df) }
        IN  /\ { RowKey(g) : g \in summaries } = keys
            /\ Cardinality(summaries) = Cardinality(keys)
            /\ \A g \in summaries :
                  g.Instance_Count =
                    Cardinality({ k \in 1..Len(resource_df) :
                                    RowKey(resource_df[k]) = RowKey(g) })
            /\ TotalCount(summaries) = Len(resource_df)

\* two resources with the same key merged into one summary, beside another key
C3_Witness ==
    /\ Grouped
    /\ Len(Entries(state_data)) = MaxResources
    /\ \E g \in grouped_df[1] : g.Instance_Count = 2 * MaxInstances
    /\ Len(resource_df) = 2 * MaxInstances

\* C4 as stated: with both hashi flags set the returned rows are those
\* returned for the same document with only the exclude-hashi flag set.
C4_ExclusionTakesPrecedence ==
    (Extracted /\ args.hide_tfe_vault /\ args.only_tfe_vault) =>
        resource_df = ExtractResources(state_data, TRUE, FALSE).rows

\* C4 amended: with both hashi flags set both filters apply, so every
\* eligible resource is dropped: no rows are returned and hashi_count is 0.
C4_BothFlagsReturnNothing ==
    (Extracted /\ args.hide_tfe_vault /\ args.only_tfe_vault) =>
        resource_df = <<>> /\ hashi_instances = 0

\* both flags set on a document that has hashi and other eligible instances
C4_Witness ==
    /\ Extracted /\ args.hide_tfe_vault /\ args.only_tfe_vault
    /\ HashiPairs(state_data) # {}
    /\ EligiblePairs(state_data) \ HashiPairs(state_data) # {}


\* an operation of one of the three programs has ended
ExtractionEnded ==
    \/ prog = "extractor" /\ pc # "extract_resources"
    \/ prog \in {"keyword", "types"} /\ pc = "done"

LacksTypeOrName(doc) ==
    \E i \in 1..Len(Entries(doc)) :
        Entries(doc)[i].type = None \/ Entries(doc)[i].name = None

\* C5 as stated: in each of the three extraction operations a document with
\* an entry that lacks a type or a name ends in an error with no rows.
C5_MissingTypeOrNameIsFatal ==
    (ExtractionEnded /\ LacksTypeOrName(state_data)) =>
        raised # "" /\ resource_df = <<>> /\ returned = None

\* kept by the hashi flags
KeptByFlags(type, exclude, only) ==
    ~(exclude /\ HashiType(type)) /\ ~(only /\ ~HashiType(type))

\* an entry on which extract_resources of the resource extractor fails
Offending(resource, exclude, only) ==
    /\ resource.mode = Some("managed")
    /\ \/ resource.type = None
       \/ /\ resource.name = None
          /\ resource.type \notin {Some(terraform_data), Some(null_resource)}
          /\ KeptByFlags(resource.type[1], exclude, only)
          /\ InstanceCount(resource) > 0

\* the name the keyword script reads for an instance
InstanceName(instance) ==
    IF instance.attributes = None \/ instance.attributes[1].name = None
    THEN Unknown ELSE instance.attributes[1].name[1]

\* the names of the script documents that contain a keyword
MatchingNames == {Test_VM}

\* the instances the keyword script keeps, whatever the mode of their resource
MatchingPairs(doc) ==
    { p \in InstancePairs(doc) :
        InstanceName(Entries(doc)[p[1]].instances[1][p[2]]) \in MatchingNames }

\* the instances extract_resource_instances keeps, whatever the mode
TypedPairs(doc, type) ==
    { p \in InstancePairs(doc) : Entries(doc)[p[1]].type = Some(type) }

\* C5 amended: extract_resources of the resource extractor raises KeyError,
\* returning no rows, exactly when the document has a managed entry without a
\* type, or a managed, non-housekeeping entry kept by the hashi flags that has
\* at least one instance and no name; any other entry without type or name is
\* passed over.  The keyword script puts "Unknown" for a missing type (and
\* never reads the resource name), and extract_resource_instances skips an
\* entry without a type.
C5_MissingFieldsPerOperation ==
    /\ (prog = "extractor" /\ pc # "extract_resources"
            /\ (state_data.resources = None \/ state_data.resources[1].kind = "list")) =>
          /\ (raised = "KeyError") <=>
                \E i \in 1..Len(Entries(state_data)) :
                    Offending(Entries(state_data)[i], args.hide_tfe_vault,
                              args.only_tfe_vault)
          /\ raised \in {"", "KeyError"}
          /\ raised # "" =>
                resource_df = <<>> /\ hashi_instances = 0 /\ exit_status = 1
    /\ (prog = "keyword" /\ pc = "done" /\ raised = "") =>
          /\ \A p \in MatchingPairs(state_data) :
                \E k \in 1..Len(resource_df) :
                    /\ resource_df[k].Resource_Name \in MatchingNames
                    /\ resource_df[k].Resource_Type =
                          (IF Entries(state_data)[p[1]].type = None THEN Unknown
                           ELSE Entries(state_data)[p[1]].type[1])
          /\ Len(resource_df) = Cardinality(MatchingPairs(state_data))
    /\ (prog = "types" /\ pc = "done" /\ raised = "") =>
          Len(resource_df) =
              Cardinality(TypedPairs(state_data, args.resource_type[1]))

\* the resource extractor fails on a nameless entry although every entry has
\* a type
C5_Witness ==
    /\ prog = "extractor" /\ pc = "done" /\ raised = "KeyError"
    /\ Entries(state_data) # <<>>
    /\ \A i \in 1..Len(Entries(state_data)) : Entries(state_data)[i].type # None

\* the keyword script returns a row of type "Unknown"
C5_WitnessKeyword ==
    /\ prog = "keyword" /\ pc = "done" /\ returned # None
    /\ \E k \in 1..Len(returned[1]) : returned[1][k].Resource_Type = Unknown

\* C6: when the resources field is absent or bound to a value that is not a
\* sequence, extract_resources returns no rows and hashi_count 0 and raises
\* nothing.
C6_NonSequenceIsEmpty ==
    (prog = "extractor" /\ pc # "extract_resources"
        /\ (state_data.resources = None \/ state_data.resources[1].kind # "list")) =>
        raised = "" /\ resource_df = <<>> /\ hashi_instances = 0

\* the deduplicated frame of a script has been returned
Deduplicated == prog \in {"keyword", "types"} /\ pc = "done" /\ returned # None

\* the fields a script compares
ComparedFields(row) ==
    IF prog = "keyword" THEN <<row.Resource_Type, row.Resource_Name>> ELSE <<row>>

FirstOccurrences(rows) ==
    { i \in 1..Len(rows) :
        \A j \in 1..(i - 1) : ComparedFields(rows[j]) # ComparedFields(rows[i]) }

NthOf(indices, n) ==
    CHOOSE i \in indices : Cardinality({ j \in indices : j <= i }) = n

C7_WitnessTypes ==
    /\ Deduplicated /\ prog = "types"
    /\ Len(returned[1]) = 2 /\ Len(resource_df) = 3
    /\ resource_df[1] = resource_df[3]

\* C8 as stated: every row of each of the three extraction operations comes
\* from a resource whose mode is "managed".
C8_OnlyManagedEverywhere ==
    ExtractionEnded =>
        /\ prog = "extractor" =>
              \A k \in 1..Len(resource_df) :
                  \E i \in 1..Len(Entries(state_data)) :
                      /\ Entries(state_data)[i].mode = Some("managed")
                      /\ Entries(state_data)[i].type = Some(resource_df[k].Resource_Type)
                      /\ Entries(state_data)[i].name = Some(resource_df[k].Resource_Name)
                      /\ InstanceCount(Entries(state_data)[i]) > 0
        /\ prog = "keyword" =>
              Len(resource_df) <=
                  Cardinality({ p \in MatchingPairs(state_data) :
                                  Entries(state_data)[p[1]].mode = Some("managed") })
        /\ prog = "types" =>
              Len(resource_df) <=
                  Cardinality({ p \in TypedPairs(state_data, args.resource_type[1]) :
                                  Entries(state_data)[p[1]].mode = Some("managed") })

ManagedPairs(doc) ==
    { p \in InstancePairs(doc) : Entries(doc)[p[1]].mode = Some("managed") }

\* C8 amended: every row of extract_resources of the resource extractor, and
\* every instance in its hashi_count, comes from a resource whose mode is
\* "managed"; the keyword script and extract_resource_instances do not look at
\* the mode, and keep the instances of resources of every mode.
C8_OnlyManagedInExtractor ==
    ExtractionEnded =>
        /\ prog = "extractor" =>
              /\ \A k \in 1..Len(resource_df) :
                    \E i \in 1..Len(Entries(state_data)) :
                        /\ Entries(state_data)[i].mode = Some("managed")
                        /\ Entries(state_data)[i].type = Some(resource_df[k].Resource_Type)
                        /\ Entries(state_data)[i].name = Some(resource_df[k].Resource_Name)
                        /\ InstanceCount(Entries(state_data)[i]) > 0
              /\ Len(resource_df) <= Cardinality(ManagedPairs(state_data))
              /\ hashi_instances <=
                    Cardinality({ p \in ManagedPairs(state_data) :
                        /\ Entries(state_data)[p[1]].type # None
                        /\ HashiType(Entries(state_data)[p[1]].type[1]) })
        /\ (prog = "keyword" /\ raised = "") =>
              Len(resource_df) = Cardinality(MatchingPairs(state_data))
        /\ (prog = "types" /\ raised = "") =>
              Len(resource_df) =
                  Cardinality(TypedPairs(state_data, args.resource_type[1]))

\* rows are returned for a document that also has a data resource of a hashi
\* type with instances
C8_Witness ==
    /\ Extracted /\ resource_df # <<>> /\ ~args.hide_tfe_vault
    /\ \E i \in 1..Len(Entries(state_data)) :
          /\ Entries(state_data)[i].mode = Some("data")
          /\ Entries(state_data)[i].type = Some(tfe_workspace)
          /\ InstanceCount(Entries(state_data)[i]) > 0


\* the resources value can be iterated without an exception
Iterable(doc) == doc.resources = None \/ doc.resources[1].kind = "list"

\* the instances whose rows the resource extractor's filters keep
KeptPairs(doc, exclude, only) ==
    { p \in EligiblePairs(doc) :
        /\ Entries(doc)[p[1]].type # None
        /\ KeptByFlags(Entries(doc)[p[1]].type[1], exclude, only) }

\* C9: when filtering leaves no rows, a run of main, whatever its number,
\* aggregate, group, output and hashi flags, prints the nothing-found message
\* and exits with status 0; it raises nothing, never reaches the number,
\* aggregate, group or output steps and writes no CSV file.  The keyword and
\* type scripts print their nothing-found message and return None.
C9_EmptyResultIsCleanExit ==
    /\ (prog = "main" /\ Iterable(state_data)
            /\ KeptPairs(state_data, args.hide_tfe_vault, args.only_tfe_vault) = {}) =>
          /\ pc \in {"compare_with_jq", "extract_resources", "extracted", "done"}
          /\ raised = ""
          /\ aggregate_out = None /\ grouped_df = None
          /\ final_df = None /\ csv_file = None
          /\ pc = "done" => stdout = <<"no_managed_resources">> /\ exit_status = 0
          /\ pc # "done" => ENABLED NextMain
    /\ (prog = "keyword" /\ pc = "done" /\ Iterable(state_data)
            /\ MatchingPairs(state_data) = {}) =>
          raised = "" /\ stdout = <<"no_matching_resources">> /\ returned = None
    /\ (prog = "types" /\ pc = "done" /\ Iterable(state_data)
            /\ TypedPairs(state_data, args.resource_type[1]) = {}) =>
          raised = "" /\ stdout = <<"no_instances">> /\ returned = None

\* the hashi flags drop every instance of a run that has all the mode flags
\* and an output file
C9_Witness ==
    /\ prog = "main" /\ pc = "done"
    /\ stdout = <<"no_managed_resources">>
    /\ bash_count > 0
    /\ args.number /\ args.aggregate /\ args.group /\ Has(args.output)

\* C10: a run of main with the group flag set, the number and aggregate flags
\* unset and at least one extracted row ends normally, after handing the
\* grouped summaries to the CSV export and printing the listing.
C10_GroupRunCompletes ==
    (prog = "main" /\ pc = "done" /\ args.group /\ ~args.number /\ ~args.aggregate
        /\ resource_df # <<>>) =>
        /\ raised = "" /\ exit_status = 0
        /\ stdout[Len(stdout)] = "listing"
        /\ final_df = grouped_df
        /\ Has(args.output) => csv_file # None /\ csv_file[1].table = grouped_df[1]

====
